---- MODULE Spec2Model ----
(***************************************************************************)
(* Model of the k8s-basic demo: the React client's data-synchronisation   *)
(* lifecycle (frontend/src/app.js, component App) and the two deployment  *)
(* scripts (deploy.sh, deploy.ps1).                                        *)
(*                                                                         *)
(* The backend is an external collaborator: every HTTP call resolves with *)
(* a nondeterministic outcome (success with any body of the bounded set,  *)
(* or failure), in any order relative to the other calls in flight.       *)
(***************************************************************************)
EXTENDS Integers, Sequences, FiniteSets, TLC

\* ---------------------------------------------------------------- bounds
MaxPosts == 2        \* number of form submissions explored
MaxLen == 2          \* longest list the server returns

\* ------------------------------------------------------- input alphabets
Names == {"", "Bob"}
Emails == {"", "bob@x.com"}

UserRecords ==
    { [id |-> 1, name |-> "Ada", email |-> "ada@x.com"],
      [id |-> 2, name |-> "Bob", email |-> "bob@x.com"] }

RECURSIVE SeqsUpTo(_, _)
SeqsUpTo(S, n) ==
    IF n = 0 THEN { <<>> }
    ELSE LET shorter == SeqsUpTo(S, n - 1)
         IN  shorter \cup { Append(s, x) : s \in { t \in shorter : Len(t) = n - 1 }, x \in S }

\* response.data of a successful GET /users: any list, duplicates included
ResponseBodies == SeqsUpTo(UserRecords, MaxLen)

\* ------------------------------------------------------------------ state
VARIABLES
    users,      \* useState([])                      the displayed collection
    newUser,    \* useState({name:'', email:''})     the draft
    loading,    \* useState(true)                    the loading flag
    mounted,    \* the mount effect (useEffect(..., [])) has run
    gets,       \* GET /users calls issued so far, in issue order
    posts,      \* POST /users calls issued so far, in issue order
    fetched,    \* history: the most recently completed successful GET and its body
    last,       \* history: the handler that ran last, with the draft before it
    script,     \* which deployment script is being run
    tools,      \* the CLI tools present on PATH
    shPc,       \* deploy.sh: index of the next external command
    shLog,      \* deploy.sh: outcome of each external command run so far
    psPc,       \* deploy.ps1: index of the next step
    psFailed,   \* deploy.ps1: index of the step that failed (0: none)
    attempt,    \* deploy.ps1: $attempt of the ingress polling loop
    exitCode    \* exit code of the script (-1 while running)

clientVars == <<users, newUser, loading, mounted, gets, posts, fetched, last>>
deployVars == <<script, tools, shPc, shLog, psPc, psFailed, attempt, exitCode>>
vars == <<users, newUser, loading, mounted, gets, posts, fetched, last,
          script, tools, shPc, shLog, psPc, psFailed, attempt, exitCode>>

EmptyDraft == [name |-> "", email |-> ""]

Pending(calls) == { i \in 1..Len(calls) : calls[i].status = "pending" }

\* ------------------------------------------------------------ the client
ClientInit ==
    /\ users = <<>>
    /\ newUser = EmptyDraft
    /\ loading = TRUE
    /\ mounted = FALSE
    /\ gets = <<>>
    /\ posts = <<>>
    /\ fetched = [get |-> 0, body |-> <<>>]
    /\ last = [op |-> "init", id |-> 0, draft |-> EmptyDraft]

\* fetchUsers without its setLoading(true)
FetchUsersStartNoFlag(origin) ==
    /\ loading' = loading
    /\ gets' = Append(
                 [i \in 1..Len(gets) |->
                    IF gets[i].status = "pending"
                    THEN [gets[i] EXCEPT !.overlapped = TRUE]
                    ELSE gets[i]],
                 [status |-> "pending", origin |-> origin,
                  overlapped |-> Pending(gets) # {}])

\* fetchUsers up to its await: setLoading(true), then the GET is sent.
\* origin is 0 for the mount effect, else the POST whose success called it.
\* overlapped records whether the call ever shared the wire with another GET.
FetchUsersStart(origin) ==
    /\ loading' = TRUE
    /\ gets' = Append(
                 [i \in 1..Len(gets) |->
                    IF gets[i].status = "pending"
                    THEN [gets[i] EXCEPT !.overlapped = TRUE]
                    ELSE gets[i]],
                 [status |-> "pending", origin |-> origin,
                  overlapped |-> Pending(gets) # {}])

RECURSIVE Deduplicated(_)
Deduplicated(s) ==
    IF s = <<>> THEN <<>>
    ELSE LET front == Deduplicated(SubSeq(s, 1, Len(s) - 1))
             x == s[Len(s)]
         IN  IF \E i \in 1..Len(front) : front[i] = x THEN front ELSE Append(front, x)

\* setUsers of the response with repeated records dropped
SetUsersDeduplicated(cur, body) == Deduplicated(body)

\* setUsers(response.data)
SetUsersFromResponse(cur, body) == body

\* useEffect(() => { fetchUsers(); }, [])
Mount ==
    /\ ~mounted
    /\ mounted' = TRUE
    /\ FetchUsersStart(0)
    /\ last' = [op |-> "mount", id |-> Len(gets) + 1, draft |-> newUser]
    /\ UNCHANGED <<users, newUser, posts, fetched>>

\* onChange of the name input
ChangeName(v) ==
    /\ mounted
    /\ v # newUser.name
    /\ newUser' = [newUser EXCEPT !.name = v]
    /\ last' = [op |-> "change", id |-> 0, draft |-> newUser]
    /\ UNCHANGED <<users, loading, mounted, gets, posts, fetched>>

\* onChange of the email input
ChangeEmail(v) ==
    /\ mounted
    /\ v # newUser.email
    /\ newUser' = [newUser EXCEPT !.email = v]
    /\ last' = [op |-> "change", id |-> 0, draft |-> newUser]
    /\ UNCHANGED <<users, loading, mounted, gets, posts, fetched>>

\* createUser that calls fetchUsers() without awaiting the POST
SubmitDraftEagerFetch ==
    /\ mounted
    /\ newUser.name # ""
    /\ newUser.email # ""
    /\ Len(posts) < MaxPosts
    /\ posts' = Append(posts, [status |-> "pending", body |-> newUser])
    /\ FetchUsersStart(Len(posts) + 1)
    /\ last' = [op |-> "submit", id |-> Len(posts) + 1, draft |-> newUser]
    /\ UNCHANGED <<users, newUser, mounted, fetched>>

\* createUser up to its await: the form's required inputs are filled in,
\* e.preventDefault(), and the POST is sent with the current draft
SubmitDraft ==
    /\ mounted
    /\ newUser.name # ""
    /\ newUser.email # ""
    /\ Len(posts) < MaxPosts
    /\ posts' = Append(posts, [status |-> "pending", body |-> newUser])
    /\ last' = [op |-> "submit", id |-> Len(posts) + 1, draft |-> newUser]
    /\ UNCHANGED <<users, newUser, loading, mounted, gets, fetched>>

\* createUser that also inserts the created record into the list itself
PostOkOptimistic(p) ==
    /\ p \in Pending(posts)
    /\ posts' = [posts EXCEPT ![p].status = "ok"]
    /\ newUser' = EmptyDraft
    /\ users' = Append(users, [id |-> Len(users) + 1, name |-> posts[p].body.name,
                               email |-> posts[p].body.email])
    /\ FetchUsersStart(p)
    /\ last' = [op |-> "postOk", id |-> p, draft |-> newUser]
    /\ UNCHANGED <<mounted, fetched>>

\* createUser that forgets setNewUser({ name: '', email: '' })
PostOkKeepDraft(p) ==
    /\ p \in Pending(posts)
    /\ posts' = [posts EXCEPT ![p].status = "ok"]
    /\ FetchUsersStart(p)
    /\ last' = [op |-> "postOk", id |-> p, draft |-> newUser]
    /\ UNCHANGED <<users, newUser, mounted, fetched>>

\* createUser after its await, POST resolved: reset the draft, refetch
PostOk(p) ==
    /\ p \in Pending(posts)
    /\ posts' = [posts EXCEPT ![p].status = "ok"]
    /\ newUser' = EmptyDraft
    /\ FetchUsersStart(p)
    /\ last' = [op |-> "postOk", id |-> p, draft |-> newUser]
    /\ UNCHANGED <<users, mounted, fetched>>

\* createUser with fetchUsers() moved to where it also runs on rejection
PostFailRefetch(p) ==
    /\ p \in Pending(posts)
    /\ posts' = [posts EXCEPT ![p].status = "failed"]
    /\ FetchUsersStart(p)
    /\ last' = [op |-> "postFail", id |-> p, draft |-> newUser]
    /\ UNCHANGED <<users, newUser, mounted, fetched>>

\* createUser after its await, POST rejected: console.error only
PostFail(p) ==
    /\ p \in Pending(posts)
    /\ posts' = [posts EXCEPT ![p].status = "failed"]
    /\ last' = [op |-> "postFail", id |-> p, draft |-> newUser]
    /\ UNCHANGED <<users, newUser, loading, mounted, gets, fetched>>

\* fetchUsers that drops the response of any but the newest call
GetOkLatestOnly(g, body) ==
    /\ g \in Pending(gets)
    /\ gets' = [gets EXCEPT ![g].status = "ok"]
    /\ users' = IF g = Len(gets) THEN body ELSE users
    /\ loading' = FALSE
    /\ fetched' = [get |-> g, body |-> body]
    /\ last' = [op |-> "getOk", id |-> g, draft |-> newUser]
    /\ UNCHANGED <<newUser, mounted, posts>>

\* fetchUsers that clears the flag only when no other call is in flight
GetOkCounted(g, body) ==
    /\ g \in Pending(gets)
    /\ gets' = [gets EXCEPT ![g].status = "ok"]
    /\ users' = body
    /\ loading' = (Pending(gets) # {g})
    /\ fetched' = [get |-> g, body |-> body]
    /\ last' = [op |-> "getOk", id |-> g, draft |-> newUser]
    /\ UNCHANGED <<newUser, mounted, posts>>

\* fetchUsers after its await, GET resolved: setUsers, finally setLoading(false)
GetOk(g, body) ==
    /\ g \in Pending(gets)
    /\ gets' = [gets EXCEPT ![g].status = "ok"]
    /\ users' = SetUsersFromResponse(users, body)
    /\ loading' = FALSE
    /\ fetched' = [get |-> g, body |-> body]
    /\ last' = [op |-> "getOk", id |-> g, draft |-> newUser]
    /\ UNCHANGED <<newUser, mounted, posts>>

\* fetchUsers whose catch also empties the list
GetFailClears(g) ==
    /\ g \in Pending(gets)
    /\ gets' = [gets EXCEPT ![g].status = "failed"]
    /\ users' = <<>>
    /\ loading' = FALSE
    /\ last' = [op |-> "getFail", id |-> g, draft |-> newUser]
    /\ UNCHANGED <<newUser, mounted, posts, fetched>>

\* fetchUsers after its await, GET rejected: console.error, finally setLoading(false)
GetFail(g) ==
    /\ g \in Pending(gets)
    /\ gets' = [gets EXCEPT ![g].status = "failed"]
    /\ loading' = FALSE
    /\ last' = [op |-> "getFail", id |-> g, draft |-> newUser]
    /\ UNCHANGED <<users, newUser, mounted, posts, fetched>>

\* ------------------------------------------------- the deployment scripts
AllTools == {"docker", "kubectl", "az"}

\* the scripts do not touch the client, and the client does not run scripts
DeployIdle ==
    /\ script = "none"
    /\ tools = {}
    /\ shPc = 0
    /\ shLog = <<>>
    /\ psPc = 0
    /\ psFailed = 0
    /\ attempt = 0
    /\ exitCode = -1

\* deploy.sh: its external commands, in order
ShCommands ==
    << [tool |-> "docker",  kind |-> "build"],   \* backend
       [tool |-> "docker",  kind |-> "push"],
       [tool |-> "docker",  kind |-> "build"],   \* frontend
       [tool |-> "docker",  kind |-> "push"],
       [tool |-> "kubectl", kind |-> "apply"],   \* namespace.yaml
       [tool |-> "kubectl", kind |-> "apply"],   \* backend-deployment.yaml
       [tool |-> "kubectl", kind |-> "apply"],   \* backend-service.yaml
       [tool |-> "kubectl", kind |-> "apply"],   \* frontend-deployment.yaml
       [tool |-> "kubectl", kind |-> "apply"],   \* frontend-service.yaml
       [tool |-> "kubectl", kind |-> "apply"],   \* configmap.yaml
       [tool |-> "kubectl", kind |-> "apply"] >> \* hpa.yaml

\* what running a command can give: 127 (not found) without the tool
Outcomes(tool) == IF tool \in tools THEN {"ok", "fail"} ELSE {"notfound"}

\* deploy.sh runs a command; there is no set -e and no test of $?, so the
\* script goes on to the next line whatever the outcome
ShRun(outcome) ==
    /\ script = "sh"
    /\ shPc \in 1..Len(ShCommands)
    /\ outcome \in Outcomes(ShCommands[shPc].tool)
    /\ shLog' = Append(shLog, outcome)
    /\ shPc' = shPc + 1
    /\ UNCHANGED <<script, tools, psPc, psFailed, attempt, exitCode>>

\* deploy.sh: echo "Deployment complete!" and the two hints; the exit code
\* is that of the last echo
ShComplete ==
    /\ script = "sh"
    /\ shPc = Len(ShCommands) + 1
    /\ exitCode = -1
    /\ exitCode' = 0
    /\ shPc' = shPc + 1
    /\ UNCHANGED <<script, tools, shLog, psPc, psFailed, attempt>>

\* deploy.ps1: its steps, in order
\*   prereq    Test-CommandExists, exit 1 when the tool is missing
\*   probe     a native command whose exit code is not tested
\*   detect    kubectl get pods -n ingress-nginx: is the controller there
\*   critical  a native command followed by a test of $LASTEXITCODE and a throw
\*   manifest  kubectl apply guarded by Test-Path, then as critical
\*   poll      the ingress polling loop
PsSteps ==
    << [kind |-> "prereq",   what |-> "docker"],
       [kind |-> "prereq",   what |-> "kubectl"],
       [kind |-> "prereq",   what |-> "az"],
       [kind |-> "probe",    what |-> "az account show"],
       [kind |-> "probe",    what |-> "kubectl config current-context"],
       [kind |-> "detect",   what |-> "ingress controller"],
       [kind |-> "critical", what |-> "apply ingress controller"],
       [kind |-> "probe",    what |-> "wait ingress controller"],
       [kind |-> "critical", what |-> "build backend"],
       [kind |-> "critical", what |-> "push backend"],
       [kind |-> "critical", what |-> "build frontend"],
       [kind |-> "critical", what |-> "push frontend"],
       [kind |-> "manifest", what |-> "k8s/namespace.yaml"],
       [kind |-> "manifest", what |-> "k8s/configmap.yaml"],
       [kind |-> "manifest", what |-> "k8s/backend-deployment.yaml"],
       [kind |-> "manifest", what |-> "k8s/backend-service.yaml"],
       [kind |-> "manifest", what |-> "k8s/frontend-deployment.yaml"],
       [kind |-> "manifest", what |-> "k8s/frontend-service.yaml"],
       [kind |-> "manifest", what |-> "k8s/hpa.yaml"],
       [kind |-> "manifest", what |-> "k8s/ingress.yaml"],
       [kind |-> "probe",    what |-> "wait backend-api"],
       [kind |-> "probe",    what |-> "wait frontend-app"],
       [kind |-> "poll",     what |-> "ingress ip"] >>

maxAttempts == 30

PsRunning(kind) ==
    /\ script = "ps1"
    /\ exitCode = -1
    /\ psPc \in 1..Len(PsSteps)
    /\ PsSteps[psPc].kind = kind

\* the step that follows the build: the first one after the install branch
PsAfterInstall == CHOOSE i \in 1..Len(PsSteps) : PsSteps[i].what = "build backend"

\* Write-Error under $ErrorActionPreference = "Stop", or exit 1
PsAbort ==
    /\ psFailed' = psPc
    /\ exitCode' = 1
    /\ UNCHANGED <<script, tools, shPc, shLog, psPc, attempt>>

PsAdvance(to) ==
    /\ psPc' = to
    /\ UNCHANGED <<script, tools, shPc, shLog, psFailed, attempt, exitCode>>

\* if (-not (Test-CommandExists "...")) { Write-Error ...; exit 1 }
PsPrereq ==
    /\ PsRunning("prereq")
    /\ IF PsSteps[psPc].what \in tools THEN PsAdvance(psPc + 1) ELSE PsAbort

\* a native command whose failure only prints: the script goes on
PsProbe(outcome) ==
    /\ PsRunning("probe")
    /\ outcome \in {"ok", "fail"}
    /\ PsAdvance(psPc + 1)

\* $ingressPods = kubectl get pods ...; if (-not $ingressPods) { install }
PsDetect(found) ==
    /\ PsRunning("detect")
    /\ PsAdvance(IF found THEN PsAfterInstall ELSE psPc + 1)

\* command; if ($LASTEXITCODE -ne 0) { throw }; catch { Write-Error; exit 1 }
PsCritical(outcome) ==
    /\ PsRunning("critical")
    /\ outcome \in {"ok", "fail"}
    /\ IF outcome = "ok" THEN PsAdvance(psPc + 1) ELSE PsAbort

\* if (Test-Path $manifest) { kubectl apply; test } else { Write-Warning }
PsManifest(present, outcome) ==
    /\ PsRunning("manifest")
    /\ outcome \in {"ok", "fail"}
    /\ IF present /\ outcome = "fail" THEN PsAbort ELSE PsAdvance(psPc + 1)

\* while ($attempt -lt $maxAttempts -and -not $ingressIP) { $attempt++; ... }
PsPoll(gotIp) ==
    /\ PsRunning("poll")
    /\ IF attempt < maxAttempts
       THEN /\ attempt' = attempt + 1
            /\ psPc' = IF gotIp THEN psPc + 1 ELSE psPc
       ELSE /\ attempt' = attempt
            /\ psPc' = psPc + 1
    /\ UNCHANGED <<script, tools, shPc, shLog, psFailed, exitCode>>

\* the status report and "Deployment script completed!"
PsComplete ==
    /\ script = "ps1"
    /\ exitCode = -1
    /\ psPc = Len(PsSteps) + 1
    /\ exitCode' = 0
    /\ psPc' = psPc + 1
    /\ UNCHANGED <<script, tools, shLog, shPc, psFailed, attempt>>

\* ---------------------------------------------------------- specifications
Init == ClientInit /\ DeployIdle

Next ==
    \/ Mount /\ UNCHANGED deployVars
    \/ (\E v \in Names : ChangeName(v)) /\ UNCHANGED deployVars
    \/ (\E v \in Emails : ChangeEmail(v)) /\ UNCHANGED deployVars
    \/ SubmitDraft /\ UNCHANGED deployVars
    \/ (\E p \in 1..MaxPosts : PostOk(p)) /\ UNCHANGED deployVars
    \/ (\E p \in 1..MaxPosts : PostFail(p)) /\ UNCHANGED deployVars
    \/ (\E g \in 1..(MaxPosts + 1), body \in ResponseBodies : GetOk(g, body)) /\ UNCHANGED deployVars
    \/ (\E g \in 1..(MaxPosts + 1) : GetFail(g)) /\ UNCHANGED deployVars

Spec == Init /\ [][Next]_vars

\* a run of one of the two scripts on a machine with some of the tools
InitDeploy ==
    /\ ClientInit
    /\ script \in {"sh", "ps1"}
    /\ tools \in SUBSET AllTools
    /\ shPc = 1
    /\ shLog = <<>>
    /\ psPc = 1
    /\ psFailed = 0
    /\ attempt = 0
    /\ exitCode = -1

NextDeploy ==
    \/ (\E o \in {"ok", "fail", "notfound"} : ShRun(o)) /\ UNCHANGED clientVars
    \/ ShComplete /\ UNCHANGED clientVars
    \/ PsPrereq /\ UNCHANGED clientVars
    \/ (\E o \in {"ok", "fail"} : PsProbe(o)) /\ UNCHANGED clientVars
    \/ (\E f \in BOOLEAN : PsDetect(f)) /\ UNCHANGED clientVars
    \/ (\E o \in {"ok", "fail"} : PsCritical(o)) /\ UNCHANGED clientVars
    \/ (\E present \in BOOLEAN, o \in {"ok", "fail"} : PsManifest(present, o)) /\ UNCHANGED clientVars
    \/ (\E ip \in BOOLEAN : PsPoll(ip)) /\ UNCHANGED clientVars
    \/ PsComplete /\ UNCHANGED clientVars

SpecDeploy == InitDeploy /\ [][NextDeploy]_vars

\* -------------------------------------------------------------- properties
Resolved(calls, calls2) == { i \in Pending(calls) : calls2[i].status # "pending" }

\* C1: the displayed collection is always the result of the most recently
\* completed successful list-fetch (the empty list before any), and no step
\* of submitDraft (sending the POST, its success, its failure) writes it.
C1_CollectionIsLastCompletedFetch ==
    /\ [](users = fetched.body)
    /\ [][posts' # posts => users' = users]_vars

\* a create has succeeded, its refetch is still in flight, and the list
\* shown is still the non-empty result of the earlier fetch
C1_Witness ==
    /\ last.op = "postOk"
    /\ \E g \in Pending(gets) : gets[g].origin = last.id
    /\ fetched.get # 0
    /\ users # <<>>
    /\ users = fetched.body

\* C2: right after a successful loadAll() resolves, the collection is the
\* sequence the server returned: same length, same element at every index.
C2_CollectionEqualsServerSequence ==
    last.op = "getOk" =>
        /\ fetched.get = last.id
        /\ Len(users) = Len(fetched.body)
        /\ \A i \in 1..Len(fetched.body) : users[i] = fetched.body[i]

\* a response with the same record twice has just been applied
C2_Witness ==
    /\ last.op = "getOk"
    /\ Len(users) = 2
    /\ users[1] = users[2]

\* C3 as stated: the flag is true while a call that overlaps no other is
\* in flight and false in every other state, the initial one included.
C3_LoadingExactlyWhileInFlight ==
    /\ \A g \in Pending(gets) : ~gets[g].overlapped => loading
    /\ Pending(gets) = {} => ~loading

\* C3 amended: the same, except that the flag is true, not false, in the
\* initial state before the mount-time fetch has been invoked.
C3_LoadingWhileInFlightOnceMounted ==
    /\ \A g \in Pending(gets) : ~gets[g].overlapped => loading
    /\ mounted /\ Pending(gets) = {} => ~loading
    /\ ~mounted => loading /\ gets = <<>>

\* a refetch that overlapped no other call is in flight and the flag is up
C3_Witness ==
    /\ loading
    /\ \E g \in Pending(gets) : gets[g].origin # 0 /\ ~gets[g].overlapped

\* C4: after a successful create the draft is empty and exactly one new
\* loadAll() has been invoked, whatever the draft was before.
C4_SuccessResetsDraftAndRefetchesOnce ==
    last.op = "postOk" =>
        /\ newUser = EmptyDraft
        /\ Cardinality({ g \in 1..Len(gets) : gets[g].origin = last.id }) = 1
        /\ gets[Len(gets)].origin = last.id
        /\ gets[Len(gets)].status = "pending"

\* the create succeeded after the user had edited the form while it was in
\* flight: the draft before the reset was neither empty nor what was sent
C4_Witness ==
    /\ last.op = "postOk"
    /\ last.draft # EmptyDraft
    /\ last.draft # posts[last.id].body
    /\ newUser = EmptyDraft

\* C5: the step in which a create fails leaves the draft, the collection
\* and the loading flag as they were and issues no GET.
C5_FailedCreateChangesNothing ==
    [][\A p \in Resolved(posts, posts') :
          posts'[p].status = "failed" =>
              /\ newUser' = newUser
              /\ users' = users
              /\ loading' = loading
              /\ gets' = gets]_vars

\* a create has just failed: the draft is still what was submitted, a
\* fetched list is still shown and no GET is in flight
C5_Witness ==
    /\ last.op = "postFail"
    /\ newUser = posts[last.id].body
    /\ last.draft = newUser
    /\ users # <<>>
    /\ Pending(gets) = {}

\* C6: the step in which a list-fetch fails leaves the collection and the
\* draft as they were and sets the loading flag to false; the view state
\* has no other field.
C6_FailedFetchKeepsStaleData ==
    [][\A g \in Resolved(gets, gets') :
          gets'[g].status = "failed" =>
              /\ users' = users
              /\ newUser' = newUser
              /\ loading' = FALSE]_vars

\* a refetch has just failed while a fetched list and a typed draft exist
C6_Witness ==
    /\ last.op = "getFail"
    /\ users # <<>>
    /\ newUser # EmptyDraft
    /\ ~loading

RefetchFollowsOwnPost ==
    /\ \A g \in 1..Len(gets) :
          gets[g].origin # 0 =>
              /\ gets[g].origin \in 1..Len(posts)
              /\ posts[gets[g].origin].status = "ok"
    /\ \A p \in Pending(posts) : \A g \in 1..Len(gets) : gets[g].origin # p

\* C7 as stated: a submit's GET follows its own POST, and in the whole
\* client a create and a list-fetch are never in flight at the same time.
C7_CreateAndFetchNeverConcurrent ==
    /\ RefetchFollowsOwnPost
    /\ ~(Pending(posts) # {} /\ Pending(gets) # {})

\* C7 amended: the GET of a submit's refetch is sent only once that
\* submit's own POST has resolved successfully, and in that very step.
C7_RefetchOnlyAfterOwnPostSucceeded ==
    /\ []RefetchFollowsOwnPost
    /\ [][\A g \in (1..Len(gets')) \ (1..Len(gets)) :
             gets'[g].origin # 0 =>
                 /\ gets'[g].origin \in Pending(posts)
                 /\ posts'[gets'[g].origin].status = "ok"]_vars

\* the refetch of a successful create is in flight
C7_Witness ==
    \E g \in Pending(gets) :
        /\ gets[g].origin # 0
        /\ posts[gets[g].origin].status = "ok"

\* C8: list-fetches exclude nothing: when the response applied last came
\* from a call issued before one that had already succeeded, the
\* collection is nevertheless that last-resolved response.
C8_LastResolvedWins ==
    (\E g \in 1..Len(gets) : g > fetched.get /\ gets[g].status = "ok") =>
        users = fetched.body

\* both overlapping fetches succeeded, the earlier-issued one last, and the
\* list shown is its response although a newer one had been received
C8_Witness ==
    /\ Pending(gets) = {}
    /\ last.op = "getOk"
    /\ last.id = fetched.get
    /\ \E g \in 1..Len(gets) :
          /\ g > fetched.get
          /\ gets[g].status = "ok"
          /\ gets[g].overlapped
    /\ users = fetched.body
    /\ users # <<>>

\* C10: every resolution of a list-fetch sets the flag to false, also with
\* another fetch still in flight; the flag falls in no other step, so it
\* stays true while the only pending fetch does not resolve; and it is
\* false once every issued fetch has resolved.
C10_FlagFallsOnAnyResolution ==
    /\ [](mounted /\ Pending(gets) = {} => ~loading)
    /\ [][/\ Resolved(gets, gets') # {} => ~loading'
          /\ loading /\ ~loading' => Resolved(gets, gets') # {}]_vars

\* the view shows the list as loaded while a fetch is still in flight
C10_Witness ==
    /\ ~loading
    /\ Pending(gets) # {}
    /\ last.op \in {"getOk", "getFail"}

ShFailures == { i \in 1..Len(shLog) : shLog[i] # "ok" }

\* C9: in both scripts a missing tool or a failed build, push or apply
\* stops the run at once with a non-zero exit code: no later command runs
\* and the run never completes with exit code 0.
C9_FailureStopsTheScript ==
    /\ \A i \in ShFailures : Len(shLog) = i /\ exitCode # 0
    /\ psFailed # 0 => psPc = psFailed /\ exitCode = 1
    /\ script = "ps1" /\ exitCode = 0 => psFailed = 0 /\ tools = AllTools
    /\ script = "sh" /\ exitCode = 0 => ShFailures = {}

====
